---- MODULE Spec2Model ----
(***************************************************************************)
(* The chat session of src/server.js: the ChatInterface component (its     *)
(* state, its event handlers and the chatMutation callbacks) and the       *)
(* sendMessage client.                                                     *)
(*                                                                         *)
(* Text is a sequence of one-character strings, so that trim, parseFloat,  *)
(* parseInt and the string-to-number coercion of the comparisons are       *)
(* computed the way JavaScript computes them.  A JavaScript value is a     *)
(* record tagged by k: undefined, NaN, a number m * 10^(-e) (a decimal,    *)
(* kept exact), or a string s.                                             *)
(***************************************************************************)
EXTENDS Integers, Sequences, FiniteSets, TLC

VARIABLES
  messages,      \* useState<Array<Message>>([])              (line 78)
  inputValue,    \* useState('')                              (line 79)
  configParams,  \* useState<ChatParams>({...})               (line 82)
  isPending,     \* chatMutation.isPending                    (line 115)
  inflight,      \* request bodies handed to fetch and not yet answered
  sent,          \* number of fetch calls made so far
  now,           \* the clock read by Date.now() and new Date()
  alertText,     \* the alert() raised by the latest event, "" if none
  lastEvent      \* the handler or callback that ran last

vars == <<messages, inputValue, configParams, isPending, inflight, sent, now,
          alertText, lastEvent>>

-----------------------------------------------------------------------------
(* Bounds of the model *)

\* Accepted submissions (fetch calls) per run.
MaxRequests == 2
\* Largest value of the millisecond clock.
MaxClock == 1

-----------------------------------------------------------------------------
(* JavaScript values *)

Undefined == [k |-> "undef"]
NaN == [k |-> "nan"]
Str(s) == [k |-> "str", s |-> s]

RECURSIVE Pow10(_)
Pow10(e) == IF e = 0 THEN 1 ELSE 10 * Pow10(e - 1)

\* The number m * 10^(-e), with trailing zeros of the fraction dropped so that
\* equal numbers are equal records (1.0 = 1).
RECURSIVE Num(_, _)
Num(m, e) ==
  IF e > 0 /\ m % 10 = 0 THEN Num(m \div 10, e - 1)
  ELSE [k |-> "num", m |-> m, e |-> e]

DigitChars == <<"0", "1", "2", "3", "4", "5", "6", "7", "8", "9">>
IsDigit(c) == \E i \in 1..10 : DigitChars[i] = c
DigitVal(c) == (CHOOSE i \in 1..10 : DigitChars[i] = c) - 1
IsSpace(c) == c = " "

RECURSIVE TrimStart(_)
TrimStart(s) ==
  IF s # <<>> /\ IsSpace(Head(s)) THEN TrimStart(Tail(s)) ELSE s

RECURSIVE TrimEnd(_)
TrimEnd(s) ==
  IF s # <<>> /\ IsSpace(s[Len(s)]) THEN TrimEnd(SubSeq(s, 1, Len(s) - 1)) ELSE s

\* String.prototype.trim
Trim(s) == TrimEnd(TrimStart(s))

\* The longest prefix of s made of decimal digits.
RECURSIVE DigitPrefix(_)
DigitPrefix(s) ==
  IF s # <<>> /\ IsDigit(Head(s)) THEN <<Head(s)>> \o DigitPrefix(Tail(s)) ELSE <<>>

RECURSIVE DigitsToNat(_)
DigitsToNat(ds) ==
  IF ds = <<>> THEN 0
  ELSE 10 * DigitsToNat(SubSeq(ds, 1, Len(ds) - 1)) + DigitVal(ds[Len(ds)])

Drop(s, n) == SubSeq(s, n + 1, Len(s))
HasSign(s) == s # <<>> /\ Head(s) \in {"-", "+"}
Unsigned(s) == IF HasSign(s) THEN Tail(s) ELSE s
Signed(s, m) == IF s # <<>> /\ Head(s) = "-" THEN 0 - m ELSE m

\* parseInt(value, 10): leading white space, a sign, then the longest run of
\* digits; whatever follows is ignored; NaN if there is no digit.
parseInt(value) ==
  LET t == TrimStart(value)
      ds == DigitPrefix(Unsigned(t))
  IN IF ds = <<>> THEN NaN ELSE Num(Signed(t, DigitsToNat(ds)), 0)

\* parseFloat(value): leading white space, a sign, then the longest prefix
\* that is a decimal literal (digits, a point, digits); whatever follows is
\* ignored; NaN if there is no digit.  (Exponents and "Infinity" are not
\* written with the characters the model's texts use.)
parseFloat(value) ==
  LET t == TrimStart(value)
      u == Unsigned(t)
      ip == DigitPrefix(u)
      r == Drop(u, Len(ip))
      fp == IF r # <<>> /\ Head(r) = "." THEN DigitPrefix(Tail(r)) ELSE <<>>
  IN IF ip = <<>> /\ fp = <<>> THEN NaN
     ELSE Num(Signed(t, DigitsToNat(ip \o fp)), Len(fp))

\* ToNumber of a string, as the relational operators apply it: the whole
\* trimmed text must be a decimal literal; the empty text is 0.
StringToNumber(s) ==
  LET t == Trim(s)
      u == Unsigned(t)
      ip == DigitPrefix(u)
      r == Drop(u, Len(ip))
      fp == IF r # <<>> /\ Head(r) = "." THEN DigitPrefix(Tail(r)) ELSE <<>>
      rest == IF r # <<>> /\ Head(r) = "." THEN Drop(r, 1 + Len(fp)) ELSE r
  IN IF t = <<>> THEN Num(0, 0)
     ELSE IF (ip = <<>> /\ fp = <<>>) \/ rest # <<>> THEN NaN
     ELSE Num(Signed(t, DigitsToNat(ip \o fp)), Len(fp))

ToNumber(v) ==
  CASE v.k = "num" -> v
    [] v.k = "str" -> StringToNumber(v.s)
    [] OTHER -> NaN

\* ToBoolean: undefined, NaN, 0 and '' are falsy.
Truthy(v) ==
  CASE v.k = "num" -> v.m # 0
    [] v.k = "str" -> v.s # <<>>
    [] OTHER -> FALSE

\* v < c and v > c for an integer literal c: false when v coerces to NaN.
Less(v, c) ==
  LET n == ToNumber(v) IN n.k = "num" /\ n.m < c * Pow10(n.e)
Greater(v, c) ==
  LET n == ToNumber(v) IN n.k = "num" /\ n.m > c * Pow10(n.e)

\* Number.prototype.toString of a natural number.
RECURSIVE NatToString(_)
NatToString(n) ==
  IF n < 10 THEN <<DigitChars[n + 1]>>
  ELSE NatToString(n \div 10) \o <<DigitChars[(n % 10) + 1]>>

-----------------------------------------------------------------------------
(* The program's texts *)

SinRespuesta == <<"S", "i", "n", " ", "r", "e", "s", "p", "u", "e", "s", "t", "a">>
ErrorAlEnviar ==
  <<"E", "r", "r", "o", "r", " ", "a", "l", " ", "e", "n", "v", "i", "a", "r", " ",
    "m", "e", "n", "s", "a", "j", "e">>
\* The template's prefix; "x" stands for the cross mark U+274C.
ErrorPrefix == <<"x", " ", "E", "r", "r", "o", "r", ":", " ">>
BotSuffix == <<"-", "b", "o", "t">>
ErrorSuffix == <<"-", "e", "r", "r", "o", "r">>
AlertTemperature == "La temperatura debe estar entre 0 y 2."
AlertTopP == "Top-P debe estar entre 0 y 1."
AlertTopK == "Top-K debe estar entre 0 y 20."
NoAlert == ""

-----------------------------------------------------------------------------
(* Inputs of the events *)

\* Texts typed into the message field: empty, blank, and a non-blank one with
\* white space around it.
InputTexts == {<<>>, <<" ">>, <<" ", "h", "i", " ">>}

\* (name, value) pairs of the configuration controls' change events.
TemperatureValues == {<<>>, <<"0">>, <<"2">>, <<"2", ".", "5">>, <<"-", "1">>}
TopPValues == {<<>>, <<"0">>, <<"1">>, <<"0", ".", "9">>, <<"1", ".", "5">>,
               <<"-", "1">>, <<"a">>}
TopKValues == {<<>>, <<"0">>, <<"2", "0">>, <<"2", "1">>, <<"-", "1">>,
               <<"3", ".", "7">>}
EffortValues == {<<"l", "o", "w">>, <<"h", "i", "g", "h">>}

AllConfigEvents ==
  ({"temperature"} \X TemperatureValues) \cup ({"top_p"} \X TopPValues)
    \cup ({"top_k"} \X TopKValues) \cup ({"reasoning_effort"} \X EffortValues)

\* The change events of the session life cycle: one invalid and one valid
\* temperature, one top_p, one top_k.
CoreConfigEvents ==
  {<<"temperature", <<"5">> >>, <<"temperature", <<"2">> >>,
   <<"top_p", <<"0", ".", "9">> >>, <<"top_k", <<"1", "0">> >>}

\* What the transport answers: fetch rejects, or a response with a status and
\* (when ok) a JSON body whose message and content fields are absent, empty
\* or a text.
FailedToFetch ==
  <<"F", "a", "i", "l", "e", "d", " ", "t", "o", " ", "f", "e", "t", "c", "h">>
FieldValues(text) == {Undefined, Str(<<>>), Str(text)}
ResponseBodies ==
  [message : FieldValues(<<"h", "i", " ", "t", "h", "e", "r", "e">>),
   content : FieldValues(<<"o", "k">>)]
Responses ==
  {[kind |-> "rejected", error |-> FailedToFetch]}
    \cup {[kind |-> "response", ok |-> FALSE]}
    \cup {[kind |-> "response", ok |-> TRUE, data |-> d] : d \in ResponseBodies}

\* The answers of the session life cycle: both failures, a body with a
\* message and a body with neither field.
CoreResponses ==
  {r \in Responses :
     r.kind = "response" /\ r.ok
       => r.data.content = Undefined /\ r.data.message # Str(<<>>)}

-----------------------------------------------------------------------------
(* sendMessage *)

\* a || b
Or(a, b) == IF Truthy(a) THEN a ELSE b

\* A variant of sendMessage that prefers the content field to the message
\* field.
sendMessage_ContentFirst(response) ==
  IF response.kind = "rejected"
    THEN [fulfilled |-> FALSE, error |-> response.error]
  ELSE IF ~response.ok
    THEN [fulfilled |-> FALSE, error |-> ErrorAlEnviar]
  ELSE [fulfilled |-> TRUE,
        message |-> Or(response.data.content,
                       Or(response.data.message, Str(SinRespuesta)))]

\* The promise sendMessage returns once the transport has answered:
\* fulfilled with {message} or rejected with an Error.
sendMessage(response) ==
  IF response.kind = "rejected"
    THEN [fulfilled |-> FALSE, error |-> response.error]
  ELSE IF ~response.ok
    THEN [fulfilled |-> FALSE, error |-> ErrorAlEnviar]
  ELSE [fulfilled |-> TRUE,
        message |-> Or(response.data.message,
                       Or(response.data.content, Str(SinRespuesta)))]

-----------------------------------------------------------------------------
(* ChatInterface *)

InitialParams ==
  [temperature |-> Num(10, 1), top_p |-> Undefined, top_k |-> Undefined,
   reasoning_effort |-> Str(<<"l", "o", "w">>)]

Init ==
  /\ messages = <<>>
  /\ inputValue = <<>>
  /\ configParams = InitialParams
  /\ isPending = FALSE
  /\ inflight = <<>>
  /\ sent = 0
  /\ now = 0
  /\ alertText = NoAlert
  /\ lastEvent = "mount"

\* onChange of the message field.  The handlers are modelled as the functions
\* they are: the disabled attributes of the field and of the button (lines
\* 278 and 283) keep a user from raising these events while a request is
\* pending, they are no guard of the handlers, so an event may call a handler
\* in any state.
setInputValue(value) ==
  /\ inputValue' = value
  /\ alertText' = NoAlert
  /\ lastEvent' = "input"
  /\ UNCHANGED <<messages, configParams, isPending, inflight, sent, now>>

\* A variant of the updater that sets the named field and leaves the other
\* sampling parameter as it is.
newParams_KeepsOther(prevParams, name, value) ==
  IF name = "top_p" THEN
    [prevParams EXCEPT !.top_p = IF value # <<>> THEN parseFloat(value) ELSE Undefined]
  ELSE IF name = "top_k" THEN
    [prevParams EXCEPT !.top_k = IF value # <<>> THEN parseInt(value) ELSE Undefined]
  ELSE [prevParams EXCEPT ![name] = Str(value)]

\* A variant of the updater that clears the other sampling parameter also
\* when the named one is unset.
newParams_AlwaysClearsOther(prevParams, name, value) ==
  IF name = "top_p" THEN
    [prevParams EXCEPT !.top_p = IF value # <<>> THEN parseFloat(value) ELSE Undefined,
                       !.top_k = Undefined]
  ELSE IF name = "top_k" THEN
    [prevParams EXCEPT !.top_k = IF value # <<>> THEN parseInt(value) ELSE Undefined,
                       !.top_p = Undefined]
  ELSE [prevParams EXCEPT ![name] = Str(value)]

\* The updater handleConfigChange passes to setConfigParams.
newParams(prevParams, name, value) ==
  IF name = "top_p" THEN
    LET p == IF value # <<>> THEN parseFloat(value) ELSE Undefined
    IN [prevParams EXCEPT !.top_p = p,
                          !.top_k = IF p # Undefined THEN Undefined ELSE @]
  ELSE IF name = "top_k" THEN
    LET k == IF value # <<>> THEN parseInt(value) ELSE Undefined
    IN [prevParams EXCEPT !.top_k = k,
                          !.top_p = IF k # Undefined THEN Undefined ELSE @]
  ELSE [prevParams EXCEPT ![name] = Str(value)]

\* A variant of handleConfigChange that writes the new parameters into the
\* parameter object the pending request carries as well.
handleConfigChange_MutatesInPlace(name, value) ==
  /\ configParams' = newParams(configParams, name, value)
  /\ inflight' = [i \in 1..Len(inflight) |->
                    [inflight[i] EXCEPT !.params = newParams(@, name, value)]]
  /\ alertText' = NoAlert
  /\ lastEvent' = "config"
  /\ UNCHANGED <<messages, inputValue, isPending, sent, now>>

\* handleConfigChange: the updater replaces the parameters by a new object.
handleConfigChange(name, value) ==
  /\ configParams' = newParams(configParams, name, value)
  /\ alertText' = NoAlert
  /\ lastEvent' = "config"
  /\ UNCHANGED <<messages, inputValue, isPending, inflight, sent, now>>

\* Variants of the first return: without the pending check, and testing the
\* text without trimming it.
SubmitIgnored_NoPendingCheck == Trim(inputValue) = <<>>
SubmitIgnored_NoTrim == inputValue = <<>> \/ isPending

\* The first return of handleSubmit.
SubmitIgnored == Trim(inputValue) = <<>> \/ isPending

\* A variant of the checks whose upper limits are exclusive.
Validaciones_ExclusiveLimits(params) ==
  IF Truthy(params.temperature)
       /\ (Less(params.temperature, 0) \/ ~Less(params.temperature, 2))
    THEN AlertTemperature
  ELSE IF Truthy(params.top_p)
       /\ (Less(params.top_p, 0) \/ ~Less(params.top_p, 1))
    THEN AlertTopP
  ELSE IF Truthy(params.top_k)
       /\ (Less(params.top_k, 0) \/ ~Less(params.top_k, 20))
    THEN AlertTopK
  ELSE NoAlert

\* "Validaciones": the alert raised for params, NoAlert if none is.
Validaciones(params) ==
  IF Truthy(params.temperature)
       /\ (Less(params.temperature, 0) \/ Greater(params.temperature, 2))
    THEN AlertTemperature
  ELSE IF Truthy(params.top_p)
       /\ (Less(params.top_p, 0) \/ Greater(params.top_p, 1))
    THEN AlertTopP
  ELSE IF Truthy(params.top_k)
       /\ (Less(params.top_k, 0) \/ Greater(params.top_k, 20))
    THEN AlertTopK
  ELSE NoAlert

\* A variant of the user message that holds the trimmed text.
userMessage_Trimmed ==
  [id |-> NatToString(now), content |-> Trim(inputValue), isUser |-> TRUE,
   timestamp |-> now]

\* Date.now() and new Date() of one handler read the same millisecond.
userMessage ==
  [id |-> NatToString(now), content |-> inputValue, isUser |-> TRUE,
   timestamp |-> now]

requestBody == [input |-> inputValue, params |-> configParams]

\* chatMutation.mutate(body): sendMessage(body) is called, which hands the
\* body to fetch, and the mutation is pending until that promise settles.
\* The handler that runs next reads the pending flag as set here.
mutate(body) ==
  /\ inflight' = Append(inflight, body)
  /\ sent' = sent + 1
  /\ isPending' = TRUE

\* A variant of handleSubmit that appends the user message before it runs the
\* checks.
handleSubmit_AppendsBeforeValidating ==
  /\ lastEvent' = "submit"
  /\ UNCHANGED <<configParams, now>>
  /\ IF SubmitIgnored THEN
       /\ alertText' = NoAlert
       /\ UNCHANGED <<messages, inputValue, isPending, inflight, sent>>
     ELSE IF Validaciones(configParams) # NoAlert THEN
       /\ alertText' = Validaciones(configParams)
       /\ messages' = Append(messages, userMessage)
       /\ UNCHANGED <<inputValue, isPending, inflight, sent>>
     ELSE
       /\ sent < MaxRequests
       /\ alertText' = NoAlert
       /\ messages' = Append(messages, userMessage)
       /\ mutate(requestBody)
       /\ inputValue' = <<>>

handleSubmit ==
  /\ lastEvent' = "submit"
  /\ UNCHANGED <<configParams, now>>
  /\ IF SubmitIgnored THEN
       /\ alertText' = NoAlert
       /\ UNCHANGED <<messages, inputValue, isPending, inflight, sent>>
     ELSE IF Validaciones(configParams) # NoAlert THEN
       /\ alertText' = Validaciones(configParams)
       /\ UNCHANGED <<messages, inputValue, isPending, inflight, sent>>
     ELSE
       /\ sent < MaxRequests
       /\ alertText' = NoAlert
       /\ messages' = Append(messages, userMessage)
       /\ mutate(requestBody)
       /\ inputValue' = <<>>

botMessage(data) ==
  [id |-> NatToString(now) \o BotSuffix, content |-> data.message.s,
   isUser |-> FALSE, timestamp |-> now]

\* A variant of the error message that leaves the error's reason out.
errorMessage_NoReason(error) ==
  [id |-> NatToString(now) \o ErrorSuffix, content |-> ErrorPrefix,
   isUser |-> FALSE, timestamp |-> now]

errorMessage(error) ==
  [id |-> NatToString(now) \o ErrorSuffix, content |-> ErrorPrefix \o error,
   isUser |-> FALSE, timestamp |-> now]

\* A variant of onSuccess that puts the reply in front of the history.
onSuccess_Prepends(data) ==
  /\ messages' = <<botMessage(data)>> \o messages
  /\ lastEvent' = "success"

onSuccess(data) ==
  /\ messages' = Append(messages, botMessage(data))
  /\ lastEvent' = "success"

onError(error) ==
  /\ messages' = Append(messages, errorMessage(error))
  /\ lastEvent' = "error"

\* A variant of settle in which a failed request leaves the mutation pending.
settle_ErrorStaysPending(i, response) ==
  /\ i \in 1..Len(inflight)
  /\ inflight' = SubSeq(inflight, 1, i - 1) \o SubSeq(inflight, i + 1, Len(inflight))
  /\ LET result == sendMessage(response)
     IN IF result.fulfilled
          THEN onSuccess(result)
               /\ isPending' = IF i = Len(inflight) THEN FALSE ELSE isPending
          ELSE onError(result.error) /\ isPending' = isPending
  /\ alertText' = NoAlert
  /\ UNCHANGED <<inputValue, configParams, sent, now>>

\* A variant of settle that sends a failed request once more instead of
\* reporting the failure.
settle_RetriesOnError(i, response) ==
  /\ i \in 1..Len(inflight)
  /\ LET result == sendMessage(response)
         rest == SubSeq(inflight, 1, i - 1) \o SubSeq(inflight, i + 1, Len(inflight))
     IN IF result.fulfilled
          THEN /\ inflight' = rest
               /\ isPending' = IF i = Len(inflight) THEN FALSE ELSE isPending
               /\ onSuccess(result)
               /\ sent' = sent
          ELSE /\ inflight' = Append(rest, inflight[i])
               /\ sent' = sent + 1
               /\ lastEvent' = "error"
               /\ UNCHANGED <<messages, isPending>>
  /\ alertText' = NoAlert
  /\ UNCHANGED <<inputValue, configParams, now>>

\* The transport answers request i: the promise of sendMessage settles, the
\* mutation leaves the pending state and its callback runs.
settle(i, response) ==
  /\ i \in 1..Len(inflight)
  /\ inflight' = SubSeq(inflight, 1, i - 1) \o SubSeq(inflight, i + 1, Len(inflight))
  /\ isPending' = IF i = Len(inflight) THEN FALSE ELSE isPending
  /\ LET result == sendMessage(response)
     IN IF result.fulfilled THEN onSuccess(result) ELSE onError(result.error)
  /\ alertText' = NoAlert
  /\ UNCHANGED <<inputValue, configParams, sent, now>>

\* A variant of clearChat that also restores the default parameters.
clearChat_ResetsParams ==
  /\ messages' = <<>>
  /\ configParams' = InitialParams
  /\ alertText' = NoAlert
  /\ lastEvent' = "clear"
  /\ UNCHANGED <<inputValue, isPending, inflight, sent, now>>

clearChat ==
  /\ messages' = <<>>
  /\ alertText' = NoAlert
  /\ lastEvent' = "clear"
  /\ UNCHANGED <<inputValue, configParams, isPending, inflight, sent, now>>

\* Time passes between two events.
Tick ==
  /\ now < MaxClock
  /\ now' = now + 1
  /\ UNCHANGED <<messages, inputValue, configParams, isPending, inflight, sent,
                 alertText, lastEvent>>

-----------------------------------------------------------------------------
(* Specifications *)

\* The session life cycle.
Next ==
  \/ \E value \in InputTexts : setInputValue(value)
  \/ \E e \in CoreConfigEvents : handleConfigChange(e[1], e[2])
  \/ handleSubmit
  \/ \E i \in 1..Len(inflight), response \in CoreResponses : settle(i, response)
  \/ clearChat
  \/ Tick

Spec == Init /\ [][Next]_vars

\* The life cycle with a transport that answers every request in the end.
\* The clock, which is read into ids and timestamps only, stands still.
Answer ==
  \E i \in 1..Len(inflight), response \in CoreResponses : settle(i, response)

NextUntimed ==
  \/ \E value \in InputTexts : setInputValue(value)
  \/ \E e \in CoreConfigEvents : handleConfigChange(e[1], e[2])
  \/ handleSubmit
  \/ Answer
  \/ clearChat

FairSpec == Init /\ [][NextUntimed]_vars /\ WF_vars(Answer)

\* The parameter controls: every change event of every control, between
\* submissions of one text that the service answers.
ParamsInputTexts == {value \in InputTexts : Trim(value) # <<>>}
ParamsResponses ==
  {r \in CoreResponses : r.kind = "response" /\ r.ok /\ r.data.message # Undefined}

NextParams ==
  \/ \E value \in ParamsInputTexts : setInputValue(value)
  \/ \E e \in AllConfigEvents : handleConfigChange(e[1], e[2])
  \/ handleSubmit
  \/ \E i \in 1..Len(inflight), response \in ParamsResponses : settle(i, response)

SpecParams == Init /\ [][NextParams]_vars

\* The replies: one text submitted again and again, answered with every
\* response body.
NextReplies ==
  \/ \E value \in ParamsInputTexts : setInputValue(value)
  \/ handleSubmit
  \/ \E i \in 1..Len(inflight), response \in Responses : settle(i, response)
  \/ clearChat

SpecReplies == Init /\ [][NextReplies]_vars

\* The controls while requests come and go: for every control, a change
\* that sets it, and for the sampling controls one that unsets it and one
\* whose text is not a number.
ControlsConfigEvents ==
  {e \in AllConfigEvents :
     e[2] \in {<<>>, <<"0">>, <<"0", ".", "9">>, <<"a">>, <<"2", "0">>,
               <<"h", "i", "g", "h">>}}

NextControls ==
  \/ \E value \in ParamsInputTexts : setInputValue(value)
  \/ \E e \in ControlsConfigEvents : handleConfigChange(e[1], e[2])
  \/ handleSubmit
  \/ \E i \in 1..Len(inflight), response \in ParamsResponses : settle(i, response)
  \/ clearChat

SpecControls == Init /\ [][NextControls]_vars

-----------------------------------------------------------------------------
(* Properties *)

Last(s) == s[Len(s)]
Blank(text) == Trim(text) = <<>>
Defined(v) == v # Undefined

\* v is a number below lo or above hi.
Outside(v, lo, hi) == Defined(v) /\ (Less(v, lo) \/ Greater(v, hi))

\* Some parameter is defined and outside its range.
OutOfRange(params) ==
  \/ Outside(params.temperature, 0, 2)
  \/ Outside(params.top_p, 0, 1)
  \/ Outside(params.top_k, 0, 20)

\* C1: a submit while a request is pending changes neither the history, the
\* parameters, the pending flag, the in-flight request nor the input text,
\* and starts no network call.
C1_PendingSubmitIsNoOp ==
  [][(isPending /\ handleSubmit)
       => UNCHANGED <<messages, configParams, isPending, inflight, sent,
                      inputValue>>]_vars

\* A submit of a non-blank text has just been ignored while a request is
\* pending.
C1_Witness ==
  /\ lastEvent = "submit"
  /\ isPending
  /\ ~Blank(inputValue)
  /\ Len(inflight) = 1
  /\ Len(messages) = 1

\* C2: at most one completion request is in flight.
C2_AtMostOneInFlight == Len(inflight) <= 1

\* A second request is outstanding after the first was answered.
C2_Witness == Len(inflight) = 1 /\ sent = 2 /\ Len(messages) = 3

\* C3: topP and topK are never both defined, whatever parameter changes
\* were made; in particular right after a change of either of them.
C3_TopPTopKExclusive ==
  ~(Defined(configParams.top_p) /\ Defined(configParams.top_k))

\* top_k has just been set while a request sent earlier still carries the
\* top_p that was defined before the change.
C3_Witness ==
  /\ lastEvent = "config"
  /\ Defined(configParams.top_k)
  /\ ~Defined(configParams.top_p)
  /\ Len(inflight) = 1
  /\ Defined(inflight[1].params.top_p)

\* C4: a submit of an empty or white-space-only text changes neither the
\* history, the parameters, the pending flag nor the requests, whatever
\* the parameters are.
C4_BlankSubmitIsNoOp ==
  [][(Blank(inputValue) /\ handleSubmit)
       => UNCHANGED <<messages, configParams, isPending, inflight, sent>>]_vars

\* A white-space-only text has just been submitted from Idle, with
\* parameters that fail validation.
C4_Witness ==
  /\ lastEvent = "submit"
  /\ inputValue = <<" ">>
  /\ ~isPending
  /\ OutOfRange(configParams)
  /\ alertText = NoAlert

\* C5: a submit from Idle of a non-blank text with parameters that fail
\* validation raises the alert and nothing else: no message is appended, no
\* request is sent, the controller stays Idle, and the input text and the
\* parameters are as before.
C5_ValidationFailureAborts ==
  [][(~isPending /\ ~Blank(inputValue) /\ OutOfRange(configParams) /\ handleSubmit)
       => /\ UNCHANGED <<messages, inputValue, configParams, inflight, sent>>
          /\ ~isPending'
          /\ alertText' # NoAlert]_vars

\* A non-blank text has just been refused for its temperature, after an
\* earlier exchange.
C5_Witness ==
  /\ lastEvent = "submit"
  /\ alertText = AlertTemperature
  /\ ~Blank(inputValue)
  /\ ~isPending
  /\ Len(messages) = 2

\* Values to validate around the range [0, hi]: unset, the two limits, just
\* outside each limit, far outside, and not a number.
Samples(hi) ==
  {Undefined, NaN, Num(0, 0), Num(hi, 0), Num(10 * hi + 1, 1), Num(0 - 1, 1),
   Num(hi + 1, 0), Num(0 - 1, 0)}
SampleParams ==
  [temperature : Samples(2), top_p : Samples(1), top_k : Samples(20),
   reasoning_effort : {Str(<<"l", "o", "w">>)}]

\* The checks refuse exactly the parameter sets with a value out of range.
ValidationTable ==
  \A params \in SampleParams :
    (Validaciones(params) # NoAlert) <=> OutOfRange(params)

\* C6: a submit from Idle of a non-blank text is refused if and only if a
\* parameter is defined and below 0 or above its limit (2, 1, 20): the
\* limits themselves, 0 and an unset field are accepted.
C6_RejectsExactlyOutOfRange ==
  /\ []ValidationTable
  /\ [][(~isPending /\ ~Blank(inputValue) /\ handleSubmit)
          => /\ (alertText' # NoAlert) <=> OutOfRange(configParams)
             /\ (sent' = sent + 1) <=> ~OutOfRange(configParams)]_vars

\* A text has just been refused for a top_k of 21, the temperature being at
\* its limit 2, after an earlier request was accepted and answered.
C6_Witness ==
  /\ lastEvent = "submit"
  /\ alertText = AlertTopK
  /\ configParams.top_k = Num(21, 0)
  /\ configParams.temperature = Str(<<"2">>)
  /\ ~isPending
  /\ sent = 1

\* The success callback has added exactly one message, the reply, at the
\* end of the history, and the controller is Idle.
ReplyAppended(response) ==
  /\ Len(messages') = Len(messages) + 1
  /\ SubSeq(messages', 1, Len(messages)) = messages
  /\ ~Last(messages').isUser
  /\ Last(messages').content = sendMessage(response).message.s
  /\ ~isPending'

\* The history ends with the User message of request i.
EndsWithUserMessageOf(i) ==
  /\ messages # <<>>
  /\ Last(messages).isUser
  /\ Last(messages).content = inflight[i].input

\* C7 as stated: on success the history gains exactly the reply X, of
\* Assistant role, placed after the User message of that submission, and the
\* controller returns to Idle.
C7_ReplyFollowsItsUserMessage ==
  [][\A i \in 1..Len(inflight), response \in CoreResponses :
       (sendMessage(response).fulfilled /\ settle(i, response))
         => ReplyAppended(response) /\ EndsWithUserMessageOf(i)]_vars

\* C7 as amended: on success the history gains exactly the reply X, of
\* Assistant role, at its end, and the controller returns to Idle; the reply
\* directly follows the User message of that submission unless the history
\* was cleared while the request was pending, and then it stands alone.
C7_ReplyAppendedAtEnd ==
  [][\A i \in 1..Len(inflight), response \in CoreResponses :
       (sendMessage(response).fulfilled /\ settle(i, response))
         => /\ ReplyAppended(response)
            /\ EndsWithUserMessageOf(i) \/ messages = <<>>]_vars

\* A reply has just been appended after the User message it answers.
C7_Witness ==
  /\ lastEvent = "success"
  /\ ~isPending
  /\ Len(messages) = 2
  /\ messages[1].isUser
  /\ messages[1].content = <<" ", "h", "i", " ">>
  /\ ~messages[2].isUser
  /\ messages[2].content = <<"h", "i", " ", "t", "h", "e", "r", "e">>

\* The message of the error a failed request ends with.
Reason(response) ==
  IF response.kind = "rejected" THEN response.error ELSE ErrorAlEnviar

\* C8: when the request fails, by a rejected fetch or a status that is not
\* ok, the history gains exactly one message, of Assistant role, whose
\* content is the failure marker followed by the error's message; the
\* controller returns to Idle, the parameters are unchanged and the request
\* is over.
C8_FailureAppendsErrorMessage ==
  [][\A i \in 1..Len(inflight), response \in CoreResponses :
       (~sendMessage(response).fulfilled /\ settle(i, response))
         => /\ Len(messages') = Len(messages) + 1
            /\ SubSeq(messages', 1, Len(messages)) = messages
            /\ ~Last(messages').isUser
            /\ Last(messages').content = ErrorPrefix \o Reason(response)
            /\ ~isPending'
            /\ inflight' = <<>>
            /\ UNCHANGED <<configParams, inputValue, sent>>]_vars

\* A request sent with changed parameters has just failed with a status that
\* is not ok.
C8_Witness ==
  /\ lastEvent = "error"
  /\ ~isPending
  /\ Len(messages) = 2
  /\ messages[2].content = ErrorPrefix \o ErrorAlEnviar
  /\ configParams # InitialParams

\* C9: clear empties the history and changes nothing else: the parameters,
\* the pending flag, the in-flight request and the input text stay.
C9_ClearOnlyEmptiesHistory ==
  [][clearChat
       => /\ messages' = <<>>
          /\ UNCHANGED <<configParams, isPending, inflight, sent, inputValue>>]_vars

\* A history has just been cleared while a request sent with changed
\* parameters is pending.
C9_Witness ==
  /\ lastEvent = "clear"
  /\ messages = <<>>
  /\ isPending
  /\ Len(inflight) = 1
  /\ configParams # InitialParams

\* A text can be typed and, after at most one parameter change, submitted
\* with success once no request is pending.
CanSubmitAgain ==
  \E value \in InputTexts, e \in CoreConfigEvents :
    /\ ~Blank(value)
    /\ Validaciones(newParams(configParams, e[1], e[2])) = NoAlert

\* C10: with a transport that answers every request, a Pending controller
\* returns to Idle, and in every state one parameter change at most makes a
\* non-blank submission valid again.
C10_AlwaysBackToIdle ==
  /\ isPending ~> ~isPending
  /\ []CanSubmitAgain

\* A second submission is pending after the first one failed and an invalid
\* temperature was corrected.
C10_Witness ==
  /\ isPending
  /\ sent = 2
  /\ Len(messages) = 3
  /\ messages[2].content = ErrorPrefix \o FailedToFetch
  /\ configParams.temperature = Str(<<"2">>)

\* C11: a submit from Idle of a non-blank text with valid parameters appends
\* exactly one User message holding the text as entered, sends exactly one
\* request carrying that text and the current parameters, empties the input
\* field and makes the controller Pending, all in one step.
C11_AcceptedSubmit ==
  [][(~isPending /\ ~Blank(inputValue) /\ ~OutOfRange(configParams) /\ handleSubmit)
       => /\ Len(messages') = Len(messages) + 1
          /\ SubSeq(messages', 1, Len(messages)) = messages
          /\ Last(messages').isUser
          /\ Last(messages').content = inputValue
          /\ inflight' = <<[input |-> inputValue, params |-> configParams]>>
          /\ sent' = sent + 1
          /\ inputValue' = <<>>
          /\ isPending'
          /\ UNCHANGED configParams]_vars

\* A text with white space around it has just been submitted with changed
\* parameters, after an earlier exchange.
C11_Witness ==
  /\ lastEvent = "submit"
  /\ isPending
  /\ inputValue = <<>>
  /\ Len(messages) = 3
  /\ Last(messages).content = <<" ", "h", "i", " ">>
  /\ inflight = <<[input |-> <<" ", "h", "i", " ">>, params |-> configParams]>>
  /\ configParams # InitialParams

\* C12: every step that is not a clear keeps the history as a prefix of the
\* new history and appends at most one message.
C12_AppendOnly ==
  [][clearChat
       \/ /\ Len(messages') \in {Len(messages), Len(messages) + 1}
          /\ SubSeq(messages', 1, Len(messages)) = messages]_vars

\* Two exchanges have been appended one message after the other.
C12_Witness ==
  /\ lastEvent \in {"success", "error"}
  /\ Len(messages) = 4
  /\ messages[1].isUser /\ ~messages[2].isUser
  /\ messages[3].isUser /\ ~messages[4].isUser

\* The first of message and content that is present, else the placeholder.
FirstPresent(data) ==
  IF Defined(data.message) THEN data.message.s
  ELSE IF Defined(data.content) THEN data.content.s
  ELSE SinRespuesta

\* The first of message and content that is present and not empty, else the
\* placeholder.
FirstNonEmpty(data) ==
  IF Defined(data.message) /\ data.message.s # <<>> THEN data.message.s
  ELSE IF Defined(data.content) /\ data.content.s # <<>> THEN data.content.s
  ELSE SinRespuesta

IsOk(response) == response.kind = "response" /\ response.ok

\* C13 as stated: the reply text of a successful response is its message
\* field if present, else its content field if present, else the
\* placeholder, an empty message or content included.
C13_ReplyIsFirstPresentField ==
  [][\A i \in 1..Len(inflight), response \in Responses :
       (IsOk(response) /\ settle(i, response))
         => Last(messages').content = FirstPresent(response.data)]_vars

\* C13 as amended: the reply text is the message field if present and not
\* empty, else the content field if present and not empty, else the
\* placeholder.
C13_ReplyIsFirstNonEmptyField ==
  /\ [](\A data \in ResponseBodies :
          sendMessage([kind |-> "response", ok |-> TRUE, data |-> data]).message
            = Str(FirstNonEmpty(data)))
  /\ [][\A i \in 1..Len(inflight), response \in Responses :
          (IsOk(response) /\ settle(i, response))
            => Last(messages').content = FirstNonEmpty(response.data)]_vars

\* A reply taken from the content field has just been appended.
C13_Witness ==
  /\ lastEvent = "success"
  /\ Len(messages) = 2
  /\ messages[2].content = <<"o", "k">>

\* The step appends a User message, and the step appends a reply (an
\* assistant or an error message).
UserAdded == Len(messages') = Len(messages) + 1 /\ Last(messages').isUser
ReplyAdded == Len(messages') = Len(messages) + 1 /\ ~Last(messages').isUser
One(b) == IF b THEN 1 ELSE 0

\* C14: no retry.  The count of requests sent grows exactly in the steps
\* that append a User message, by one; a request is put in flight only
\* then, and every step that appends a reply ends one request in flight, a
\* failed one included.  Both counts start at 0, so the requests sent equal
\* the User messages ever appended, and the replies ever appended, which are
\* the requests sent less those still in flight, never exceed them.
C14_NoRetry ==
  /\ [](Len(inflight) <= sent)
  /\ [][/\ sent' = sent + One(UserAdded)
        /\ Len(inflight') = Len(inflight) + One(UserAdded) - One(ReplyAdded)]_vars

\* A request has just failed: it was the only one sent, none is in flight
\* and the history holds its User message and the error message.
C14_Witness ==
  /\ lastEvent = "error"
  /\ sent = 1
  /\ inflight = <<>>
  /\ ~isPending
  /\ Len(messages) = 2
  /\ messages[1].isUser
  /\ messages[2].content = ErrorPrefix \o ErrorAlEnviar

\* C15: the messages of the history have pairwise distinct ids, an id being
\* the creation time followed by the role suffix.
C15_IdsDistinct ==
  \A i, j \in 1..Len(messages) : i # j => messages[i].id # messages[j].id

\* The fields of the parameters other than those named keep their values.
OnlyChanges(names) ==
  \A f \in DOMAIN configParams : f \notin names => configParams'[f] = configParams[f]

\* C16: a parameter change leaves the history, the pending flag and the
\* in-flight request alone.  A change of temperature or reasoning_effort
\* changes that field only; setting top_p (top_k) to a defined value changes
\* that field and clears the other one; unsetting top_p (top_k) changes that
\* field only.
C16_ParamChangeFrame ==
  [][\A e \in ControlsConfigEvents :
       handleConfigChange(e[1], e[2])
         => /\ UNCHANGED <<messages, isPending, inflight, sent, inputValue>>
            /\ e[1] \in {"temperature", "reasoning_effort"} => OnlyChanges({e[1]})
            /\ (e[1] = "top_p" /\ e[2] # <<>>)
                 => /\ Defined(configParams'.top_p)
                    /\ configParams'.top_k = Undefined
                    /\ OnlyChanges({"top_p", "top_k"})
            /\ (e[1] = "top_k" /\ e[2] # <<>>)
                 => /\ Defined(configParams'.top_k)
                    /\ configParams'.top_p = Undefined
                    /\ OnlyChanges({"top_p", "top_k"})
            /\ (e[1] = "top_p" /\ e[2] = <<>>)
                 => configParams'.top_p = Undefined /\ OnlyChanges({"top_p"})
            /\ (e[1] = "top_k" /\ e[2] = <<>>)
                 => configParams'.top_k = Undefined /\ OnlyChanges({"top_k"})]_vars

\* The temperature has just been changed while a request is pending, and
\* top_k is as the request carries it.
C16_Witness ==
  /\ lastEvent = "config"
  /\ isPending
  /\ Len(inflight) = 1
  /\ Defined(configParams.top_k)
  /\ inflight[1].params.top_k = configParams.top_k
  /\ inflight[1].params.temperature # configParams.temperature
  /\ inflight[1].params.reasoning_effort = configParams.reasoning_effort

\* The history alternates User, Assistant, User, ... from a User message,
\* and a request is pending exactly when the last message is a User message.
\* A clear while the request is pending leaves the reply alone in the
\* history: this does not hold.
C17_AlternatesFromUser ==
  /\ \A i \in 1..Len(messages) : messages[i].isUser <=> (i % 2 = 1)
  /\ isPending <=> (messages # <<>> /\ Last(messages).isUser)

\* C17: in every reachable state adjacent messages of the history have
\* different roles, so every reply after the first message is immediately
\* preceded by a User message, and a non-empty history ends with a User
\* message exactly when a request is pending.
C17_AlternatesAndPendingIffLastUser ==
  /\ \A i \in 1..(Len(messages) - 1) : messages[i].isUser # messages[i + 1].isUser
  /\ messages # <<>> => (isPending <=> Last(messages).isUser)

\* A history that starts with the reply to a cleared User message and goes
\* on with a User message and its reply.
C17_Witness ==
  /\ Len(messages) = 3
  /\ ~messages[1].isUser
  /\ ~isPending

\* v is a number of the interval [lo, hi].
Within(v, lo, hi) ==
  ToNumber(v).k = "num" /\ ~Less(v, lo) /\ ~Greater(v, hi)

\* The validity rules of the parameters, all at once.
Valid(params) ==
  /\ Defined(params.temperature) => Within(params.temperature, 0, 2)
  /\ Defined(params.top_p) => Within(params.top_p, 0, 1)
  /\ Defined(params.top_k) => Within(params.top_k, 0, 20)
  /\ ~(Defined(params.top_p) /\ Defined(params.top_k))

\* C18: every request that is sent carries parameters that satisfy all the
\* validity rules: temperature, top_p and top_k, where defined, lie in
\* [0,2], [0,1] and [0,20], and top_p and top_k are not both defined.
C18_SentParamsValid ==
  \A i \in 1..Len(inflight) : Valid(inflight[i].params)

\* The in-flight requests without the i-th.
Without(i) == SubSeq(inflight, 1, i - 1) \o SubSeq(inflight, i + 1, Len(inflight))

\* C19: the request body is a snapshot taken at submit.  A parameter change
\* or a clear leaves the input and the parameters of the in-flight request
\* as they are; a request joins the in-flight requests only by an accepted
\* submit, carrying the input text and the parameters of that moment; and a
\* request leaves them only when it is answered.
C19_RequestIsSnapshot ==
  [][/\ lastEvent' \in {"config", "clear", "input"} => inflight' = inflight
     /\ \/ inflight' = inflight
        \/ /\ lastEvent' = "submit"
           /\ inflight' = Append(inflight, [input |-> inputValue, params |-> configParams])
        \/ /\ lastEvent' \in {"success", "error"}
           /\ \E i \in 1..Len(inflight) : inflight' = Without(i)]_vars

\* The parameters have just been changed while a request is pending, and the
\* request carries the parameters of its submit.
C19_Witness ==
  /\ isPending
  /\ lastEvent = "config"
  /\ Len(inflight) = 1
  /\ inflight[1].params # configParams
  /\ inflight[1].params = InitialParams

====
